---------------------------- MODULE Spec2Model ----------------------------
(***************************************************************************)
(* glogi: a leveled, colored console logger on top of log/slog.            *)
(*                                                                         *)
(* Text is modelled as sequences of one-character strings.  The escape     *)
(* character (octal 033) is written "ESC"; the four characters of its      *)
(* textual placeholder are "\\", "0", "3", "3".                            *)
(***************************************************************************)
EXTENDS Integers, Sequences, FiniteSets, TLC

(***************************************************************************)
(* Bounds of the model.                                                    *)
(***************************************************************************)
\* total number of API calls started by all goroutines together
MaxCalls == 2
\* number of WithAttrs/WithGroup derivations in the handler model
MaxDerive == 4
\* number of records logged through derived handlers in the handler model
MaxRenders == 1

(***************************************************************************)
(* strings, strconv, fmt helpers                                           *)
(***************************************************************************)
ESC == "ESC"
NL == "\n"

UpperChars == <<"A","B","C","D","E","F","G","H","I","J","K","L","M",
                "N","O","P","Q","R","S","T","U","V","W","X","Y","Z">>
LowerChars == <<"a","b","c","d","e","f","g","h","i","j","k","l","m",
                "n","o","p","q","r","s","t","u","v","w","x","y","z">>
DigitChars == <<"0","1","2","3","4","5","6","7","8","9">>

IndexIn(c, alphabet) ==
    IF \E i \in 1..Len(alphabet) : alphabet[i] = c
    THEN CHOOSE i \in 1..Len(alphabet) : alphabet[i] = c
    ELSE 0

ToUpperChar(c) ==
    LET i == IndexIn(c, LowerChars) IN IF i = 0 THEN c ELSE UpperChars[i]

ToLowerChar(c) ==
    LET i == IndexIn(c, UpperChars) IN IF i = 0 THEN c ELSE LowerChars[i]

ToUpper(s) == [i \in 1..Len(s) |-> ToUpperChar(s[i])]

ToLower(s) == [i \in 1..Len(s) |-> ToLowerChar(s[i])]

IsSpace(c) == c \in {" ", "\t", "\n", "\r", "\f"}

TrimSpace(s) ==
    LET keep == {i \in 1..Len(s) : ~IsSpace(s[i])}
    IN  IF keep = {} THEN <<>>
        ELSE LET lo == CHOOSE i \in keep : \A j \in keep : i <= j
                 hi == CHOOSE i \in keep : \A j \in keep : j <= i
             IN  SubSeq(s, lo, hi)

\* whether sub occurs at position i of s
MatchAt(s, sub, i) ==
    /\ i + Len(sub) - 1 <= Len(s)
    /\ \A k \in 1..Len(sub) : s[i + k - 1] = sub[k]

Contains(s, sub) == \E i \in 1..(Len(s) + 1) : MatchAt(s, sub, i)

RECURSIVE ReplaceAll(_, _, _)
ReplaceAll(s, old, new) ==
    IF s = <<>> THEN <<>>
    ELSE IF MatchAt(s, old, 1)
         THEN new \o ReplaceAll(SubSeq(s, Len(old) + 1, Len(s)), old, new)
         ELSE <<s[1]>> \o ReplaceAll(Tail(s), old, new)

\* index of the last occurrence of character c in s, 0 when there is none
LastIndex(s, c) ==
    LET at == {i \in 1..Len(s) : s[i] = c}
    IN  IF at = {} THEN 0 ELSE CHOOSE i \in at : \A j \in at : j <= i

Count(s, c) == Cardinality({i \in 1..Len(s) : s[i] = c})

RECURSIVE DigitsValue(_)
DigitsValue(s) ==
    IF s = <<>> THEN 0
    ELSE 10 * DigitsValue(SubSeq(s, 1, Len(s) - 1))
         + (IndexIn(s[Len(s)], DigitChars) - 1)

AllDigits(s) == s # <<>> /\ \A i \in 1..Len(s) : IndexIn(s[i], DigitChars) # 0

\* strconv.Atoi: an optional sign and decimal digits
Atoi(s) ==
    IF s # <<>> /\ s[1] \in {"+", "-"}
    THEN IF AllDigits(Tail(s))
         THEN [ok |-> TRUE,
               val |-> IF s[1] = "-" THEN 0 - DigitsValue(Tail(s))
                       ELSE DigitsValue(Tail(s))]
         ELSE [ok |-> FALSE, val |-> 0]
    ELSE IF AllDigits(s)
         THEN [ok |-> TRUE, val |-> DigitsValue(s)]
         ELSE [ok |-> FALSE, val |-> 0]

\* fmt's %d of a non-negative integer
RECURSIVE IntToStr(_)
IntToStr(n) ==
    IF n < 10 THEN <<DigitChars[n + 1]>>
    ELSE IntToStr(n \div 10) \o <<DigitChars[(n % 10) + 1]>>

\* A character outside ASCII takes two bytes in a Go string (UTF-8); the
\* model has one such character, e with acute accent, and the byte that is
\* left of it when a string is cut in its middle.
WideChars == {"U+00E9"}
HalfChar == "0xC3"

\* len(s): the number of bytes
RECURSIVE ByteLen(_)
ByteLen(s) ==
    IF s = <<>> THEN 0
    ELSE (IF s[1] \in WideChars THEN 2 ELSE 1) + ByteLen(Tail(s))

\* s[:n] for n <= len(s): the first n bytes
RECURSIVE CutBytes(_, _)
CutBytes(s, n) ==
    IF n <= 0 \/ s = <<>> THEN <<>>
    ELSE IF s[1] \in WideChars
         THEN IF n = 1 THEN <<HalfChar>>
              ELSE <<s[1]>> \o CutBytes(Tail(s), n - 2)
         ELSE <<s[1]>> \o CutBytes(Tail(s), n - 1)

\* fmt's %-*s: left-justified in a field of w characters (runes), never cut
PadRight(s, w) ==
    IF Len(s) >= w THEN s
    ELSE s \o [i \in 1..(w - Len(s)) |-> " "]


(***************************************************************************)
(* Severity scale                                                          *)
(***************************************************************************)
LevelTrace == -8
LevelDebug == -4
LevelInfo == 0
LevelWarn == 4
LevelError == 8
LevelFatal == 12
LevelPanic == 16

Levels == {LevelTrace, LevelDebug, LevelInfo, LevelWarn, LevelError,
           LevelFatal, LevelPanic}

\* parseLevel with a case for every level name, FATAL and PANIC included
parseLevelAllNames(s) ==
    LET u == ToUpper(TrimSpace(s))
    IN  CASE u = <<"T","R","A","C","E">> -> LevelTrace
          [] u = <<"D","E","B","U","G">> -> LevelDebug
          [] u = <<"W","A","R","N">> -> LevelWarn
          [] u = <<"W","A","R","N","I","N","G">> -> LevelWarn
          [] u = <<"E","R","R","O","R">> -> LevelError
          [] u = <<"F","A","T","A","L">> -> LevelFatal
          [] u = <<"P","A","N","I","C">> -> LevelPanic
          [] OTHER -> LevelInfo

\* parseLevel: the level a LOG_LEVEL or SetLevel string names
parseLevel(s) ==
    LET u == ToUpper(TrimSpace(s))
    IN  CASE u = <<"T","R","A","C","E">> -> LevelTrace
          [] u = <<"D","E","B","U","G">> -> LevelDebug
          [] u = <<"W","A","R","N">> -> LevelWarn
          [] u = <<"W","A","R","N","I","N","G">> -> LevelWarn
          [] u = <<"E","R","R","O","R">> -> LevelError
          [] OTHER -> LevelInfo

(***************************************************************************)
(* Color resolver and configuration store                                  *)
(***************************************************************************)
Ansi(code) == <<ESC, "[">> \o code \o <<"m">>

defaultColorReset == Ansi(<<"0">>)
defaultColorDarkGray == Ansi(<<"9","0">>)
defaultColorCyan == Ansi(<<"3","6">>)
defaultColorYellow == Ansi(<<"3","3">>)
defaultColorRed == Ansi(<<"3","1">>)
defaultColorGreen == Ansi(<<"3","2">>)

EscPlaceholder == <<"\\","0","3","3">>

\* parseColor matching the color names without folding their case
parseColorCaseSensitive(c0) ==
    LET c == TrimSpace(c0)
        l == c
    IN  IF c = <<>> THEN <<>>
        ELSE CASE l = <<"r","e","d">> -> Ansi(<<"3","1">>)
               [] l = <<"g","r","e","e","n">> -> Ansi(<<"3","2">>)
               [] l = <<"y","e","l","l","o","w">> -> Ansi(<<"3","3">>)
               [] l = <<"b","l","u","e">> -> Ansi(<<"3","4">>)
               [] l = <<"m","a","g","e","n","t","a">> -> Ansi(<<"3","5">>)
               [] l = <<"c","y","a","n">> -> Ansi(<<"3","6">>)
               [] l = <<"w","h","i","t","e">> -> Ansi(<<"3","7">>)
               [] l = <<"g","r","a","y">> -> Ansi(<<"9","0">>)
               [] l = <<"g","r","e","y">> -> Ansi(<<"9","0">>)
               [] l = <<"n","o","n","e">> -> <<>>
               [] l = <<"o","f","f">> -> <<>>
               [] OTHER ->
                    IF Contains(c, <<ESC>>) \/ Contains(c, EscPlaceholder)
                    THEN ReplaceAll(c, EscPlaceholder, <<ESC>>)
                    ELSE IF Atoi(c).ok THEN Ansi(c)
                    ELSE c

\* parseColor: the escape sequence a color setting stands for
parseColor(c0) ==
    LET c == TrimSpace(c0)
        l == ToLower(c)
    IN  IF c = <<>> THEN <<>>
        ELSE CASE l = <<"r","e","d">> -> Ansi(<<"3","1">>)
               [] l = <<"g","r","e","e","n">> -> Ansi(<<"3","2">>)
               [] l = <<"y","e","l","l","o","w">> -> Ansi(<<"3","3">>)
               [] l = <<"b","l","u","e">> -> Ansi(<<"3","4">>)
               [] l = <<"m","a","g","e","n","t","a">> -> Ansi(<<"3","5">>)
               [] l = <<"c","y","a","n">> -> Ansi(<<"3","6">>)
               [] l = <<"w","h","i","t","e">> -> Ansi(<<"3","7">>)
               [] l = <<"g","r","a","y">> -> Ansi(<<"9","0">>)
               [] l = <<"g","r","e","y">> -> Ansi(<<"9","0">>)
               [] l = <<"n","o","n","e">> -> <<>>
               [] l = <<"o","f","f">> -> <<>>
               [] OTHER ->
                    IF Contains(c, <<ESC>>) \/ Contains(c, EscPlaceholder)
                    THEN ReplaceAll(c, EscPlaceholder, <<ESC>>)
                    ELSE IF Atoi(c).ok THEN Ansi(c)
                    ELSE c

\* the package-level configuration variables as they are before initConfig
DefaultConfig ==
    [sourceWidth |-> 20,
     colorReset |-> defaultColorReset,
     colorTrace |-> defaultColorDarkGray,
     colorDebug |-> defaultColorCyan,
     colorInfo |-> <<>>,
     colorWarn |-> defaultColorYellow,
     colorError |-> defaultColorRed,
     colorSource |-> defaultColorGreen,
     colorsDisabled |-> FALSE,
     configLoaded |-> FALSE]

ColorFields == {"colorTrace", "colorDebug", "colorInfo", "colorWarn",
                "colorError", "colorSource"}

\* the environment variable that carries each color
ColorEnvKey(f) ==
    CASE f = "colorTrace" -> "LOG_COLOR_TRACE"
      [] f = "colorDebug" -> "LOG_COLOR_DEBUG"
      [] f = "colorInfo" -> "LOG_COLOR_INFO"
      [] f = "colorWarn" -> "LOG_COLOR_WARN"
      [] f = "colorError" -> "LOG_COLOR_ERROR"
      [] f = "colorSource" -> "LOG_COLOR_SOURCE"

\* initConfig: one load of the environment e into the configuration c
initConfig(c, e) ==
    IF c.configLoaded THEN c
    ELSE LET w == Atoi(e.LOG_SOURCE_WIDTH)
             width == IF e.LOG_SOURCE_WIDTH # <<>> /\ w.ok /\ w.val > 0
                      THEN w.val ELSE c.sourceWidth
             off == \/ e.LOG_NO_COLOR = <<"1">>
                    \/ e.LOG_NO_COLOR = <<"t","r","u","e">>
             col(f) == IF e[ColorEnvKey(f)] # <<>>
                       THEN parseColor(e[ColorEnvKey(f)]) ELSE c[f]
         IN  [c EXCEPT !.configLoaded = TRUE,
                       !.sourceWidth = width,
                       !.colorsDisabled = IF off THEN TRUE ELSE @,
                       !.colorTrace = col("colorTrace"),
                       !.colorDebug = col("colorDebug"),
                       !.colorInfo = col("colorInfo"),
                       !.colorWarn = col("colorWarn"),
                       !.colorError = col("colorError"),
                       !.colorSource = col("colorSource")]

SetSourceWidth(c, width) ==
    IF width > 0 THEN [c EXCEPT !.sourceWidth = width] ELSE c

\* SetColorTrace .. SetColorSource: field f takes the resolved color
SetColor(c, f, color) == [c EXCEPT ![f] = parseColor(color)]

DisableColors(c) == [c EXCEPT !.colorsDisabled = TRUE]

EnableColors(c) == [c EXCEPT !.colorsDisabled = FALSE]

\* the default of each color as the README's table of environment
\* variables documents it
DocumentedDefault(f) ==
    CASE f = "colorTrace" -> <<"w","h","i","t","e">>
      [] f = "colorDebug" -> <<"g","r","a","y">>
      [] f = "colorInfo" -> <<>>
      [] f = "colorWarn" -> <<"y","e","l","l","o","w">>
      [] f = "colorError" -> <<"r","e","d">>
      [] f = "colorSource" -> <<"g","r","e","e","n">>

(***************************************************************************)
(* Formatter: ColoredHandler.Handle                                        *)
(***************************************************************************)
\* a record's attribute value is a string or an integer; %v of it
FormatValue(v) == IF v.kind = "int" THEN IntToStr(v.n) ELSE v.s

StrVal(s) == [kind |-> "string", s |-> s]
IntVal(n) == [kind |-> "int", n |-> n]
Attr(k, v) == [key |-> k, value |-> v]

BadKey == <<"!","B","A","D","K","E","Y">>

\* slog.Record.Add: alternating keys and values become attributes
RECURSIVE argsToAttrs(_)
argsToAttrs(args) ==
    IF args = <<>> THEN <<>>
    ELSE IF args[1].kind = "string"
         THEN IF Len(args) = 1 THEN <<Attr(BadKey, args[1])>>
              ELSE <<Attr(args[1].s, args[2])>>
                   \o argsToAttrs(SubSeq(args, 3, Len(args)))
         ELSE <<Attr(BadKey, args[1])>> \o argsToAttrs(Tail(args))

levelName(l) ==
    IF l <= LevelTrace THEN <<"T","R","A","C","E">>
    ELSE IF l <= LevelDebug THEN <<"D","E","B","U","G">>
    ELSE IF l <= LevelInfo THEN <<"I","N","F","O">>
    ELSE IF l <= LevelWarn THEN <<"W","A","R","N">>
    ELSE IF l <= LevelError THEN <<"E","R","R","O","R">>
    ELSE IF l <= LevelFatal THEN <<"F","A","T","A","L">>
    ELSE <<"P","A","N","I","C">>

levelColorOf(c, l) ==
    IF l <= LevelTrace THEN c.colorTrace
    ELSE IF l <= LevelDebug THEN c.colorDebug
    ELSE IF l <= LevelInfo THEN c.colorInfo
    ELSE IF l <= LevelWarn THEN c.colorWarn
    ELSE c.colorError

\* the fixed width of the level token
LevelWidth == 5

\* formatLevelWithColor without its colorsDisabled test
formatLevelIgnoringDisabled(c, l) ==
    LET paddedName == PadRight(levelName(l), LevelWidth)
        color == levelColorOf(c, l)
    IN  IF color = <<>>
        THEN [str |-> paddedName, color |-> <<>>]
        ELSE [str |-> color \o paddedName \o c.colorReset, color |-> color]

\* formatLevelWithColor: the rendered level token and the color of the body
formatLevelWithColor(c, l) ==
    LET paddedName == PadRight(levelName(l), LevelWidth)
        color == levelColorOf(c, l)
    IN  IF c.colorsDisabled \/ color = <<>>
        THEN [str |-> paddedName, color |-> <<>>]
        ELSE [str |-> color \o paddedName \o c.colorReset, color |-> color]

NoPC == [file |-> <<>>, line |-> 0]

\* the file name without its directories, and the line
formatLoc(pc) ==
    LET idx == LastIndex(pc.file, "/")
        file == IF idx >= 1 THEN SubSeq(pc.file, idx + 1, Len(pc.file))
                ELSE pc.file
    IN  file \o <<":">> \o IntToStr(pc.line)

\* the call site cut or padded to the configured width: len(loc) and
\* loc[:sourceWidth] count bytes, the padding of %-*s counts runes
fitLoc(c, loc) ==
    IF ByteLen(loc) > c.sourceWidth THEN CutBytes(loc, c.sourceWidth)
    ELSE PadRight(loc, c.sourceWidth)

formatSource(c, pc) ==
    IF pc.file = <<>> THEN <<>>
    ELSE LET loc == fitLoc(c, formatLoc(pc))
         IN  IF ~c.colorsDisabled /\ c.colorSource # <<>>
             THEN c.colorSource \o <<"[">> \o loc \o <<"]">> \o c.colorReset
             ELSE <<"[">> \o loc \o <<"]">>

RECURSIVE formatAttrs(_)
formatAttrs(as) ==
    IF as = <<>> THEN <<>>
    ELSE <<" ">> \o as[1].key \o <<"=">> \o FormatValue(as[1].value)
         \o formatAttrs(Tail(as))

\* message, per-call attributes, then the handler's bound attributes
formatBody(c, r, hattrs) ==
    LET msgContent == r.message \o formatAttrs(r.attrs) \o formatAttrs(hattrs)
        levelColor == formatLevelWithColor(c, r.level).color
    IN  IF ~c.colorsDisabled /\ levelColor # <<>>
        THEN levelColor \o msgContent \o c.colorReset
        ELSE msgContent

\* the bytes Handle hands to the writer for record r
formatLine(c, r, hattrs) ==
    <<"[">> \o r.time \o <<"]", " ">> \o formatLevelWithColor(c, r.level).str
    \o <<" ">> \o formatSource(c, r.pc) \o <<" ">> \o formatBody(c, r, hattrs)
    \o <<NL>>

\* what Handle returns for the writer's result
HandleResult(ok) == IF ok THEN "nil" ELSE "EIO"


(***************************************************************************)
(* Legacy shim: fmt.Sprint and fmt.Sprintf of strings and integers         *)
(***************************************************************************)
\* fmt.Sprint: a space between operands when neither is a string
RECURSIVE Sprint(_)
Sprint(v) ==
    IF v = <<>> THEN <<>>
    ELSE IF Len(v) = 1 THEN FormatValue(v[1])
    ELSE FormatValue(v[1])
         \o (IF v[1].kind # "string" /\ v[2].kind # "string"
             THEN <<" ">> ELSE <<>>)
         \o Sprint(Tail(v))

\* fmt.Sprintf with the verbs %v, %d, %s and %%, one operand per verb
RECURSIVE Sprintf(_, _)
Sprintf(format, v) ==
    IF format = <<>> THEN <<>>
    ELSE IF format[1] = "%" /\ Len(format) >= 2
         THEN IF format[2] = "%"
              THEN <<"%">> \o Sprintf(SubSeq(format, 3, Len(format)), v)
              ELSE IF v = <<>>
                   THEN <<"%", "!", format[2], "(", "M","I","S","S","I","N","G", ")">>
                        \o Sprintf(SubSeq(format, 3, Len(format)), v)
                   ELSE FormatValue(v[1])
                        \o Sprintf(SubSeq(format, 3, Len(format)), Tail(v))
         ELSE <<format[1]>> \o Sprintf(Tail(format), v)

(***************************************************************************)
(* Entry points of the facade and of the legacy shim                       *)
(***************************************************************************)
FacadeEntries == {"Trace", "Debug", "Info", "Warn", "Error", "Fatal",
                  "PanicLog"}
CompatEntries == {"Print", "Println", "Printf", "Fatalln", "Fatalf",
                  "Panic", "Panicln", "Panicf"}
Entries == FacadeEntries \cup CompatEntries

\* the severity each entry point hands to logWithCaller/logCompatWithCaller
EntryLevel(e) ==
    CASE e = "Trace" -> LevelTrace
      [] e = "Debug" -> LevelDebug
      [] e \in {"Info", "Print", "Println", "Printf"} -> LevelInfo
      [] e = "Warn" -> LevelWarn
      [] e = "Error" -> LevelError
      [] e \in {"Fatal", "Fatalln", "Fatalf"} -> LevelFatal
      [] e \in {"PanicLog", "Panic", "Panicln", "Panicf"} -> LevelPanic

\* what the entry point does once the logging helper has returned
AfterLog(e) ==
    IF e \in {"Fatal", "Fatalln", "Fatalf"} THEN "exit"
    ELSE IF e \in {"PanicLog", "Panic", "Panicln", "Panicf"} THEN "panic"
    ELSE "return"

\* the status os.Exit is called with
FatalExitCode == 1
\* the status of a process that dies of a panic nobody recovered
PanicExitCode == 2

\* the comparison of Enabled with its operands the wrong way round
EnabledReversed(floor, l) == l <= floor

\* ColoredHandler.Enabled
Enabled(floor, l) == l >= floor


(***************************************************************************)
(* State                                                                   *)
(***************************************************************************)
VARIABLES
    env,        \* the process environment (os.Getenv), fixed at start
    once,       \* initOnce: "new", "running" (the body runs) or "done", and
                \* how many times Do has started the body
    level,      \* the *slog.LevelVar: whether it is allocated, and its value
    logger,     \* the global logger: "nil" or "logger"
    isInit,     \* the unsynchronised flag ensureInit checks
    config,     \* the configuration variables of the handler file
    sink,       \* os.Stdout, append-only and never read back: the number of
                \* Write calls made on it (a call's record keeps its bytes)
    proc,       \* the process: running, exited (os.Exit) or crashed (panic)
    pc,         \* where each goroutine is
    cur,        \* each goroutine's current (or last) call
    synced,     \* the goroutine has been through initOnce.Do since the body
    calls,      \* API calls started so far
    lastSet,    \* the last SetLevel that returned: whether any, and its level
    pinned,     \* per configuration field, the value a setter last gave it
    handlers,   \* the ColoredHandler values derived so far
    arrays      \* the backing arrays of their attrs slices

facadeVars == <<env, once, level, logger, isInit, config, sink, proc, pc, cur,
                synced, calls, lastSet, pinned>>
attrVars == <<handlers, arrays>>
vars == <<env, once, level, logger, isInit, config, sink, proc, pc, cur,
          synced, calls, lastSet, pinned, handlers, arrays>>

Procs == {"g1", "g2"}

(***************************************************************************)
(* Inputs                                                                  *)
(***************************************************************************)
NoEnv ==
    [LOG_LEVEL |-> <<>>, LOG_SOURCE_WIDTH |-> <<>>, LOG_NO_COLOR |-> <<>>,
     LOG_COLOR_TRACE |-> <<>>, LOG_COLOR_DEBUG |-> <<>>,
     LOG_COLOR_INFO |-> <<>>, LOG_COLOR_WARN |-> <<>>,
     LOG_COLOR_ERROR |-> <<>>, LOG_COLOR_SOURCE |-> <<>>]

Envs ==
    { NoEnv,
      [NoEnv EXCEPT !.LOG_LEVEL = <<"e","r","r","o","r">>,
                    !.LOG_NO_COLOR = <<"1">>,
                    !.LOG_SOURCE_WIDTH = <<"7">>],
      [NoEnv EXCEPT !.LOG_LEVEL = <<"T","R","A","C","E">>,
                    !.LOG_SOURCE_WIDTH = <<"-","5">>,
                    !.LOG_COLOR_INFO = <<"r","e","d">>,
                    !.LOG_COLOR_SOURCE = <<"o","f","f">>] }

LevelInputs ==
    { <<"D","E","B","U","G">>, <<" ","w","a","r","n","i","n","g">>,
      <<"E","R","R","O","R">>, <<"f","a","t","a","l">> }

\* the second goroutine is a worker that logs and may call Init; the first
\* makes every call of the API

kv == <<StrVal(<<"k">>), IntVal(7)>>

\* the logging calls a goroutine may make: entry point, message, arguments
LogInputs ==
    { [entry |-> "Trace", msg |-> <<"t">>, args |-> <<>>],
      [entry |-> "Debug", msg |-> <<"d">>, args |-> kv],
      [entry |-> "Info", msg |-> <<"i">>, args |-> kv],
      [entry |-> "Warn", msg |-> <<"a", NL, "b">>, args |-> <<>>],
      [entry |-> "Error", msg |-> <<"e">>, args |-> kv],
      [entry |-> "Fatal", msg |-> <<"f">>, args |-> kv],
      [entry |-> "PanicLog", msg |-> <<"p">>, args |-> <<>>],
      [entry |-> "Print", msg |-> Sprint(<<StrVal(<<"p">>)>>), args |-> <<>>],
      [entry |-> "Println", msg |-> Sprint(<<IntVal(1), IntVal(2)>>),
       args |-> <<>>],
      [entry |-> "Printf", msg |-> Sprintf(<<"n","=","%","d">>, <<IntVal(5)>>),
       args |-> <<>>],
      [entry |-> "Fatalln", msg |-> Sprint(<<StrVal(<<"f">>)>>), args |-> <<>>],
      [entry |-> "Fatalf", msg |-> Sprintf(<<"%","s">>, <<StrVal(<<"f">>)>>),
       args |-> <<>>],
      [entry |-> "Panic", msg |-> Sprint(<<StrVal(<<"p">>)>>), args |-> <<>>],
      [entry |-> "Panicln", msg |-> Sprint(<<IntVal(3)>>), args |-> <<>>],
      [entry |-> "Panicf", msg |-> Sprintf(<<"%","v">>, <<IntVal(4)>>),
       args |-> <<>>] }

LogInputsOf(p) ==
    IF p = "g1" THEN LogInputs
    ELSE {in \in LogInputs : in.entry = "Info"}

WidthInputs == {0, 12}

ColorInputs ==
    { [field |-> "colorTrace", color |-> <<"3","5">>],
      [field |-> "colorDebug", color |-> <<"g","r","e","y">>],
      [field |-> "colorInfo", color |-> <<"b","l","u","e">>],
      [field |-> "colorWarn", color |-> <<"n","o","n","e">>],
      [field |-> "colorError", color |-> <<"\\","0","3","3","[","1","m">>],
      [field |-> "colorSource", color |-> <<"C","y","a","n">>] }

TimeStr == <<"2","0","2","5","/","1","2","/","2","6"," ",
             "1","5",":","0","4",":","0","5">>

\* the call site runtime.Callers resolves for a call made by goroutine p
Site(p) ==
    IF p = "g1"
    THEN [file |-> <<"/","a","/","a","p","p",".","g","o">>, line |-> 42]
    ELSE [file |-> <<"e","x","c","h","a","n","g","e","_","c","l","i","e","n",
                     "t",".","g","o">>, line |-> 1234]

\* a source file whose name is not ASCII
WideSite ==
    [file |-> <<"/","a","/","U+00E9","t","U+00E9",".","g","o">>, line |-> 42]

\* the call site of goroutine p's call of entry point e: the Error calls of
\* the program are in the file with the non-ASCII name
CallSite(p, e) == IF e = "Error" THEN WideSite ELSE Site(p)

\* the caller of a deferred Recover is the runtime's panic machinery
RecoverSite ==
    [file |-> <<"/","r","u","n","t","i","m","e","/","p","a","n","i","c",".",
                "g","o">>, line |-> 9]

\* runtime.Stack: one line per frame
StackTrace == <<"g", NL, "f">>

NilDeref == <<"n","i","l"," ","d","e","r","e","f">>

ConfigFields == ColorFields \cup {"sourceWidth", "colorsDisabled"}

\* a Write call: who made it and for which call, from the entry point's
\* helper ("call") or from Recover, the record's level, the bytes, whether
\* the writer took them, and colorsDisabled and sourceWidth as Handle read
\* them
NoWrite ==
    [by |-> "none", call |-> 0, src |-> "none", level |-> 0, bytes |-> <<>>,
     ok |-> TRUE, nocolor |-> FALSE, width |-> 0]

\* a goroutine's call: the entry point and its arguments; whether a Recover
\* is deferred around it; the result of the floor check and the floor it
\* read; the Writes made by the helper (nw) and by Recover (nr) and the last
\* of them; the error Handle returned and what the entry point returned;
\* the panic in flight; the SetLevel in force when the call started and
\* whether another SetLevel returned before the floor check
NoCall ==
    [op |-> "none", entry |-> "none", lvl |-> 0, msg |-> <<>>, args |-> <<>>,
     scoped |-> FALSE, call |-> 0, gate |-> "none", floor |-> 0, nw |-> 0,
     nr |-> 0, wrote |-> NoWrite,
     err |-> "none", ret |-> "none", panic |-> "none", payload |-> <<>>,
     inRecover |-> FALSE, setHas |-> FALSE, setLvl |-> 0, setLater |-> FALSE]

FacadeInit ==
    /\ env \in Envs
    /\ once = [state |-> "new", runs |-> 0]
    /\ level = [alloc |-> FALSE, val |-> 0]
    /\ logger = "nil"
    /\ isInit = FALSE
    /\ config = DefaultConfig
    /\ sink = [n |-> 0]
    /\ proc = [state |-> "running", code |-> 0, by |-> "none", why |-> "none"]
    /\ pc = [p \in Procs |-> "idle"]
    /\ cur = [p \in Procs |-> NoCall]
    /\ synced = [p \in Procs |-> FALSE]
    /\ calls = 0
    /\ lastSet = [has |-> FALSE, lvl |-> 0]
    /\ pinned = [f \in ConfigFields |-> [has |-> FALSE, v |-> DefaultConfig[f]]]


(***************************************************************************)
(* Unsynchronised reads.  isInit, logger and level are plain package       *)
(* variables written inside initOnce.Do and read outside it; a goroutine   *)
(* that has not been through initOnce.Do since the body ran has no         *)
(* happens-before edge to those writes, so each such read returns either   *)
(* the initial value or the written one.                                   *)
(***************************************************************************)
ReadIsInit(p) == IF synced[p] THEN {isInit} ELSE {FALSE, isInit}

ReadLogger(p) == IF synced[p] THEN {logger} ELSE {"nil", logger}

ReadLevelVar(p) == IF synced[p] THEN {level.alloc} ELSE {FALSE, level.alloc}

(***************************************************************************)
(* Facade: calls                                                           *)
(***************************************************************************)
Running == proc.state = "running"

CanStart(p) == Running /\ pc[p] = "idle" /\ calls < MaxCalls

\* where a goroutine goes once it knows the logger is initialised
Cont(p) ==
    IF cur[p].op = "Init" THEN "returned"
    ELSE IF cur[p].inRecover THEN "rhandle"
    ELSE "gate"

\* what logWithCaller does with the error Handle returned
Discard(err) == "void"

\* the helper has returned into entry point c.entry
Leave(p, c) ==
    LET after == AfterLog(c.entry)
    IN  /\ pc' = [pc EXCEPT ![p] = IF after = "return" THEN "returned"
                                   ELSE after]
        /\ cur' = [cur EXCEPT ![p] =
                     IF after = "panic"
                     THEN [c EXCEPT !.panic = "user", !.payload = c.msg]
                     ELSE IF after = "return"
                     THEN [c EXCEPT !.ret = Discard(c.err)]
                     ELSE c]

CallInit(p) ==
    /\ CanStart(p)
    /\ calls' = calls + 1
    /\ cur' = [cur EXCEPT ![p] = [NoCall EXCEPT !.op = "Init",
                                                !.call = calls + 1]]
    /\ pc' = [pc EXCEPT ![p] = "once"]
    /\ UNCHANGED <<env, once, level, logger, isInit, config, sink, proc,
                   synced, lastSet, pinned>>
    /\ UNCHANGED attrVars

\* initOnce.Do, first caller: it runs the body
OnceEnter(p) ==
    /\ Running /\ pc[p] = "once" /\ once.state = "new"
    /\ once' = [state |-> "running", runs |-> once.runs + 1]
    /\ pc' = [pc EXCEPT ![p] = "body1"]
    /\ UNCHANGED <<env, level, logger, isInit, config, sink, proc, cur,
                   synced, calls, lastSet, pinned>>
    /\ UNCHANGED attrVars

\* initOnce.Do, after the body has completed: returns at once
OncePass(p) ==
    /\ Running /\ pc[p] = "once" /\ once.state = "done"
    /\ synced' = [synced EXCEPT ![p] = TRUE]
    /\ pc' = [pc EXCEPT ![p] = Cont(p)]
    /\ UNCHANGED <<env, once, level, logger, isInit, config, sink, proc, cur,
                   calls, lastSet, pinned>>
    /\ UNCHANGED attrVars

\* the body: level = &slog.LevelVar{}; level.Set(parseLevel(LOG_LEVEL))
InitLevel(p) ==
    /\ Running /\ pc[p] = "body1"
    /\ level' = [alloc |-> TRUE, val |-> parseLevel(env.LOG_LEVEL)]
    /\ pc' = [pc EXCEPT ![p] = "body2"]
    /\ UNCHANGED <<env, once, logger, isInit, config, sink, proc, cur,
                   synced, calls, lastSet, pinned>>
    /\ UNCHANGED attrVars

\* the body: NewColoredHandler (initConfig), logger, isInit = true
InitLogger(p) ==
    /\ Running /\ pc[p] = "body2"
    /\ config' = initConfig(config, env)
    /\ logger' = "logger"
    /\ isInit' = TRUE
    /\ pc' = [pc EXCEPT ![p] = "body3"]
    /\ UNCHANGED <<env, once, level, sink, proc, cur, synced, calls, lastSet,
                   pinned>>
    /\ UNCHANGED attrVars

\* initOnce.Do returns to the goroutine that ran the body
OnceDone(p) ==
    /\ Running /\ pc[p] = "body3"
    /\ once' = [once EXCEPT !.state = "done"]
    /\ synced' = [synced EXCEPT ![p] = TRUE]
    /\ pc' = [pc EXCEPT ![p] = Cont(p)]
    /\ UNCHANGED <<env, level, logger, isInit, config, sink, proc, cur,
                   calls, lastSet, pinned>>
    /\ UNCHANGED attrVars

CallSetLevel(p, s) ==
    /\ CanStart(p) /\ p = "g1"
    /\ calls' = calls + 1
    /\ \E seen \in ReadLevelVar(p) :
          level' = IF seen THEN [level EXCEPT !.val = parseLevel(s)]
                   ELSE level
    /\ lastSet' = [has |-> TRUE, lvl |-> parseLevel(s)]
    /\ cur' = [q \in Procs |->
                 IF q = p
                 THEN [NoCall EXCEPT !.op = "SetLevel",
                                     !.lvl = parseLevel(s),
                                     !.call = calls + 1]
                 ELSE IF cur[q].op = "log" /\ cur[q].gate = "none"
                 THEN [cur[q] EXCEPT !.setLater = TRUE]
                 ELSE cur[q]]
    /\ pc' = [pc EXCEPT ![p] = "returned"]
    /\ UNCHANGED <<env, once, logger, isInit, config, sink, proc, synced,
                   pinned>>
    /\ UNCHANGED attrVars

\* a logging entry point is called; scoped: under a deferred Recover
CallLog(p, in, scoped) ==
    /\ CanStart(p)
    /\ calls' = calls + 1
    /\ cur' = [cur EXCEPT ![p] =
                 [NoCall EXCEPT !.op = "log", !.entry = in.entry,
                                !.lvl = EntryLevel(in.entry),
                                !.msg = in.msg, !.args = in.args,
                                !.scoped = scoped, !.call = calls + 1,
                                !.setHas = lastSet.has,
                                !.setLvl = lastSet.lvl]]
    /\ pc' = [pc EXCEPT ![p] = "ensure"]
    /\ UNCHANGED <<env, once, level, logger, isInit, config, sink, proc,
                   synced, lastSet, pinned>>
    /\ UNCHANGED attrVars

ensureInit(p) ==
    /\ Running /\ pc[p] = "ensure"
    /\ \E seen \in ReadIsInit(p) :
          pc' = [pc EXCEPT ![p] = IF seen THEN Cont(p) ELSE "once"]
    /\ UNCHANGED <<env, once, level, logger, isInit, config, sink, proc, cur,
                   synced, calls, lastSet, pinned>>
    /\ UNCHANGED attrVars

\* logger.Enabled on a nil logger: a nil pointer dereference
GateNil(p) ==
    /\ Running /\ pc[p] = "gate"
    /\ "nil" \in ReadLogger(p)
    /\ cur' = [cur EXCEPT ![p].panic = "runtime", ![p].payload = NilDeref]
    /\ pc' = [pc EXCEPT ![p] = "panic"]
    /\ UNCHANGED <<env, once, level, logger, isInit, config, sink, proc,
                   synced, calls, lastSet, pinned>>
    /\ UNCHANGED attrVars

\* logWithCaller / logCompatWithCaller: the floor check
Gate(p) ==
    /\ Running /\ pc[p] = "gate"
    /\ "logger" \in ReadLogger(p)
    /\ LET pass == Enabled(level.val, cur[p].lvl)
           c == [cur[p] EXCEPT !.gate = IF pass THEN "pass" ELSE "drop",
                               !.floor = level.val]
       IN  IF pass
           THEN /\ cur' = [cur EXCEPT ![p] = c]
                /\ pc' = [pc EXCEPT ![p] = "handle"]
           ELSE Leave(p, c)
    /\ UNCHANGED <<env, once, level, logger, isInit, config, sink, proc,
                   synced, calls, lastSet, pinned>>
    /\ UNCHANGED attrVars

\* logger.Handler().Handle(ctx, r): one Write, which succeeds or fails; the
\* configuration is read as it is when the line is rendered
Handle(p) ==
    /\ Running /\ pc[p] = "handle"
    /\ \E ok \in BOOLEAN :
          LET r == [time |-> TimeStr, level |-> cur[p].lvl,
                    message |-> cur[p].msg,
                    pc |-> CallSite(p, cur[p].entry),
                    attrs |-> argsToAttrs(cur[p].args)]
              w == [by |-> p, call |-> cur[p].call, src |-> "call",
                    level |-> cur[p].lvl,
                    bytes |-> formatLine(config, r, <<>>),
                    ok |-> ok, nocolor |-> config.colorsDisabled,
                    width |-> config.sourceWidth]
              c == [cur[p] EXCEPT !.nw = @ + 1, !.wrote = w,
                                  !.err = HandleResult(ok)]
          IN  /\ sink' = [n |-> sink.n + 1]
              /\ Leave(p, c)
    /\ UNCHANGED <<env, once, level, logger, isInit, config, proc, synced,
                   calls, lastSet, pinned>>
    /\ UNCHANGED attrVars

\* os.Exit(1) in Fatal, Fatalln, Fatalf
Exit(p) ==
    /\ Running /\ pc[p] = "exit"
    /\ proc' = [state |-> "exited", code |-> FatalExitCode, by |-> p,
                why |-> "os.Exit"]
    /\ UNCHANGED <<env, once, level, logger, isInit, config, sink, pc, cur,
                   synced, calls, lastSet, pinned>>
    /\ UNCHANGED attrVars

\* a panic reaches a deferred Recover: recover() returns its value
Recover(p) ==
    /\ Running /\ pc[p] = "panic"
    /\ cur[p].scoped /\ ~cur[p].inRecover
    /\ cur' = [cur EXCEPT ![p].inRecover = TRUE]
    /\ pc' = [pc EXCEPT ![p] = "ensure"]
    /\ UNCHANGED <<env, once, level, logger, isInit, config, sink, proc,
                   synced, calls, lastSet, pinned>>
    /\ UNCHANGED attrVars

\* a panic nobody recovers ends the process
Crash(p) ==
    /\ Running /\ pc[p] = "panic"
    /\ ~(cur[p].scoped /\ ~cur[p].inRecover)
    /\ proc' = [state |-> "crashed", code |-> PanicExitCode, by |-> p,
                why |-> cur[p].panic]
    /\ UNCHANGED <<env, once, level, logger, isInit, config, sink, pc, cur,
                   synced, calls, lastSet, pinned>>
    /\ UNCHANGED attrVars

\* Recover: logger.Handler() on a nil logger
RecoverNil(p) ==
    /\ Running /\ pc[p] = "rhandle"
    /\ "nil" \in ReadLogger(p)
    /\ cur' = [cur EXCEPT ![p].panic = "runtime", ![p].payload = NilDeref]
    /\ pc' = [pc EXCEPT ![p] = "panic"]
    /\ UNCHANGED <<env, once, level, logger, isInit, config, sink, proc,
                   synced, calls, lastSet, pinned>>
    /\ UNCHANGED attrVars

\* Recover: the record it builds for the recovered value
recoverRecord(payload) ==
    [time |-> TimeStr, level |-> LevelPanic,
     message |-> <<"r","e","c","o","v","e","r","e","d",":"," ">> \o payload,
     pc |-> RecoverSite,
     attrs |-> argsToAttrs(<<StrVal(<<"s","t","a","c","k">>),
                             StrVal(StackTrace)>>)]

\* Recover: the PANIC record with the stack, handed to Handle; then the
\* function that deferred Recover returns normally
RecoverHandle(p) ==
    /\ Running /\ pc[p] = "rhandle"
    /\ "logger" \in ReadLogger(p)
    /\ \E ok \in BOOLEAN :
          LET r == recoverRecord(cur[p].payload)
              w == [by |-> p, call |-> cur[p].call, src |-> "recover",
                    level |-> LevelPanic,
                    bytes |-> formatLine(config, r, <<>>),
                    ok |-> ok, nocolor |-> config.colorsDisabled,
                    width |-> config.sourceWidth]
          IN  /\ sink' = [n |-> sink.n + 1]
              /\ cur' = [cur EXCEPT ![p].panic = "none",
                                    ![p].nr = @ + 1,
                                    ![p].wrote = w,
                                    ![p].err = HandleResult(ok),
                                    ![p].ret = Discard(HandleResult(ok))]
    /\ pc' = [pc EXCEPT ![p] = "returned"]
    /\ UNCHANGED <<env, once, level, logger, isInit, config, proc, synced,
                   calls, lastSet, pinned>>
    /\ UNCHANGED attrVars

\* the call has returned to its caller: its frame is gone
Return(p) ==
    /\ Running /\ pc[p] = "returned"
    /\ pc' = [pc EXCEPT ![p] = "idle"]
    /\ cur' = [cur EXCEPT ![p] = NoCall]
    /\ UNCHANGED <<env, once, level, logger, isInit, config, sink, proc,
                   synced, calls, lastSet, pinned>>
    /\ UNCHANGED attrVars

(***************************************************************************)
(* Configuration setters                                                   *)
(***************************************************************************)
SetterDone(p, name) ==
    /\ calls' = calls + 1
    /\ cur' = [cur EXCEPT ![p] = [NoCall EXCEPT !.op = name,
                                                !.call = calls + 1]]
    /\ pc' = [pc EXCEPT ![p] = "returned"]
    /\ UNCHANGED <<env, once, level, logger, isInit, sink, proc, synced,
                   lastSet>>
    /\ UNCHANGED attrVars

CallSetSourceWidth(p, w) ==
    /\ CanStart(p) /\ p = "g1"
    /\ config' = SetSourceWidth(config, w)
    /\ pinned' = IF w > 0
                 THEN [pinned EXCEPT !["sourceWidth"] =
                                        [has |-> TRUE, v |-> w]]
                 ELSE pinned
    /\ SetterDone(p, "SetSourceWidth")

CallSetColor(p, in) ==
    /\ CanStart(p) /\ p = "g1"
    /\ config' = SetColor(config, in.field, in.color)
    /\ pinned' = [pinned EXCEPT ![in.field] =
                                   [has |-> TRUE, v |-> parseColor(in.color)]]
    /\ SetterDone(p, "SetColor")

CallDisableColors(p) ==
    /\ CanStart(p) /\ p = "g1"
    /\ config' = DisableColors(config)
    /\ pinned' = [pinned EXCEPT !["colorsDisabled"] =
                                   [has |-> TRUE, v |-> TRUE]]
    /\ SetterDone(p, "DisableColors")

CallEnableColors(p) ==
    /\ CanStart(p) /\ p = "g1"
    /\ config' = EnableColors(config)
    /\ pinned' = [pinned EXCEPT !["colorsDisabled"] =
                                   [has |-> TRUE, v |-> FALSE]]
    /\ SetterDone(p, "EnableColors")

(***************************************************************************)
(* Derived handlers.  ColoredHandler.attrs is a Go slice: a backing array, *)
(* a length and a capacity.  append writes in place when the capacity      *)
(* allows and allocates a larger array otherwise.                          *)
(***************************************************************************)
NilSlice == [arr |-> 0, len |-> 0, cap |-> 0]

ZeroAttr == Attr(<<>>, StrVal(<<>>))

\* the elements of slice s over the backing arrays arrs
SliceElems(arrs, s) == IF s.arr = 0 THEN <<>> ELSE SubSeq(arrs[s.arr], 1, s.len)

\* the capacity append gives a slice of capacity oldCap that must hold newLen
growCap(oldCap, newLen) ==
    IF newLen > 2 * oldCap THEN newLen
    ELSE IF oldCap < 256 THEN 2 * oldCap
    ELSE oldCap + (oldCap + 768) \div 4

\* append(s, xs...): the resulting slice and the backing arrays after it
appendSlice(arrs, s, xs) ==
    LET n == Len(xs)
        newLen == s.len + n
    IN  IF n = 0 THEN [slice |-> s, arrays |-> arrs]
        ELSE IF newLen <= s.cap
        THEN [slice |-> [s EXCEPT !.len = newLen],
              arrays |-> [arrs EXCEPT ![s.arr] =
                            [i \in 1..s.cap |->
                               IF i > s.len /\ i <= newLen THEN xs[i - s.len]
                               ELSE @[i]]]]
        ELSE LET c == growCap(s.cap, newLen)
                 old == SliceElems(arrs, s)
             IN  [slice |-> [arr |-> Len(arrs) + 1, len |-> newLen, cap |-> c],
                  arrays |-> Append(arrs,
                               [i \in 1..c |->
                                  IF i <= s.len THEN old[i]
                                  ELSE IF i <= newLen THEN xs[i - s.len]
                                  ELSE ZeroAttr])]

\* the handler NewColoredHandler returns: no attrs, no groups
RootHandler ==
    [attrs |-> NilSlice, groups |-> <<>>, parent |-> 0, want |-> <<>>]

\* the bound attributes handler h renders
BoundAttrs(h) == SliceElems(arrays, handlers[h].attrs)

AttrInputs ==
    { <<Attr(<<"a">>, IntVal(1))>>,
      <<Attr(<<"b">>, IntVal(2))>>,
      <<Attr(<<"c">>, IntVal(3)), Attr(<<"d">>, IntVal(4))>> }

GroupInputs == { <<"g">> }

\* the handlers that can exist: the root and MaxDerive derived ones
HandlerIds == 1..(MaxDerive + 1)

\* h.WithAttrs(attrs); want: the parent's attributes now, then attrs
WithAttrs(h, attrs) ==
    /\ h \in 1..Len(handlers)
    /\ Len(handlers) <= MaxDerive
    /\ LET r == appendSlice(arrays, handlers[h].attrs, attrs)
       IN  /\ handlers' = Append(handlers,
                             [attrs |-> r.slice,
                              groups |-> handlers[h].groups,
                              parent |-> h,
                              want |-> BoundAttrs(h) \o attrs])
           /\ arrays' = r.arrays
    /\ UNCHANGED facadeVars

\* h.WithGroup(name): the attrs slice is handed on as it is (same backing
\* array); Handle never reads groups, which are kept here as a plain list
WithGroup(h, name) ==
    /\ h \in 1..Len(handlers)
    /\ Len(handlers) <= MaxDerive
    /\ handlers' = Append(handlers,
                      [attrs |-> handlers[h].attrs,
                       groups |-> Append(handlers[h].groups, name),
                       parent |-> h,
                       want |-> BoundAttrs(h)])
    /\ UNCHANGED arrays
    /\ UNCHANGED facadeVars

\* the per-call arguments of a record logged through a derived handler
RenderInputs ==
    { <<StrVal(<<"a">>), IntVal(1), StrVal(<<"b">>), IntVal(2)>>,
      <<StrVal(<<"k">>), IntVal(7), StrVal(<<"k">>), IntVal(8)>> }

\* h.Handle(ctx, r) for an INFO record logged through handler h (the logger
\* slog builds around a derived handler): one Write of the line with the
\* record's attributes and the attributes h holds
HandleWith(h, args) ==
    /\ h \in 1..Len(handlers)
    /\ sink.n < MaxRenders
    /\ \E ok \in BOOLEAN :
          LET r == [time |-> TimeStr, level |-> LevelInfo,
                    message |-> <<"m">>, pc |-> Site("g1"),
                    attrs |-> argsToAttrs(args)]
              w == [by |-> "g1", call |-> sink.n + 1, src |-> "handler",
                    level |-> LevelInfo,
                    bytes |-> formatLine(config, r, BoundAttrs(h)),
                    ok |-> ok, nocolor |-> config.colorsDisabled,
                    width |-> config.sourceWidth]
          IN  /\ sink' = [n |-> sink.n + 1]
              /\ cur' = [cur EXCEPT !["g1"] =
                           [NoCall EXCEPT !.op = "handler", !.lvl = LevelInfo,
                                          !.msg = r.message, !.args = args,
                                          !.call = h, !.gate = "pass",
                                          !.nw = 1, !.wrote = w,
                                          !.err = HandleResult(ok)]]
    /\ UNCHANGED <<env, once, level, logger, isInit, config, proc, pc,
                   synced, calls, lastSet, pinned>>
    /\ UNCHANGED attrVars

(***************************************************************************)
(* Specification of the facade                                             *)
(***************************************************************************)
Init ==
    /\ FacadeInit
    /\ handlers = <<>>
    /\ arrays = <<>>

Next ==
    \E p \in Procs :
        \/ CallInit(p)
        \/ OnceEnter(p)
        \/ OncePass(p)
        \/ InitLevel(p)
        \/ InitLogger(p)
        \/ OnceDone(p)
        \/ \E s \in LevelInputs : CallSetLevel(p, s)
        \/ \E in \in LogInputsOf(p) :
              \E scoped \in (IF AfterLog(in.entry) = "panic" THEN BOOLEAN
                             ELSE {FALSE}) : CallLog(p, in, scoped)
        \/ ensureInit(p)
        \/ GateNil(p)
        \/ Gate(p)
        \/ Handle(p)
        \/ Exit(p)
        \/ Recover(p)
        \/ Crash(p)
        \/ RecoverNil(p)
        \/ RecoverHandle(p)
        \/ Return(p)
        \/ \E w \in WidthInputs : CallSetSourceWidth(p, w)
        \/ \E in \in ColorInputs : CallSetColor(p, in)
        \/ CallDisableColors(p)
        \/ CallEnableColors(p)

Spec == Init /\ [][Next]_vars

(***************************************************************************)
(* Specification of the color resolver: the color setters called with the  *)
(* forms a color can be written in                                         *)
(***************************************************************************)
RedForms ==
    { <<"r","e","d">>, <<"3","1">>, <<ESC,"[","3","1","m">>,
      <<"\\","0","3","3","[","3","1","m">> }

EmptyForms ==
    { <<>>, <<"n","o","n","e">>, <<"o","f","f">>, <<"N","O","N","E">>,
      <<"O","f","f">> }

ResolverInputs ==
    RedForms \cup EmptyForms \cup { <<" ","R","e","d"," ">>, <<"3","2">> }

\* SetColorTrace .. SetColorSource called with color: field f takes what
\* parseColor makes of it
ResolveColor(f, color) ==
    /\ calls < MaxCalls
    /\ calls' = calls + 1
    /\ config' = SetColor(config, f, color)
    /\ pinned' = [pinned EXCEPT ![f] = [has |-> TRUE, v |-> config'[f]]]
    /\ cur' = [cur EXCEPT !["g1"] =
                 [NoCall EXCEPT !.op = "SetColor", !.entry = f,
                                !.msg = color, !.call = calls + 1]]
    /\ UNCHANGED <<env, once, level, logger, isInit, sink, proc, pc, synced,
                   lastSet>>
    /\ UNCHANGED attrVars

InitColors ==
    /\ FacadeInit
    /\ env = NoEnv
    /\ handlers = <<>>
    /\ arrays = <<>>

NextColors ==
    \E f \in ColorFields : \E color \in ResolverInputs : ResolveColor(f, color)

SpecColors == InitColors /\ [][NextColors]_vars

(***************************************************************************)
(* Specification of handler derivation: the handler of an initialised      *)
(* logger and the handlers derived from it                                 *)
(***************************************************************************)
InitAttrs ==
    /\ FacadeInit
    /\ env = NoEnv
    /\ handlers = <<RootHandler>>
    /\ arrays = <<>>

NextAttrs ==
    \E h \in HandlerIds :
        \/ \E attrs \in AttrInputs : WithAttrs(h, attrs)
        \/ \E name \in GroupInputs : WithGroup(h, name)
        \/ \E args \in RenderInputs : HandleWith(h, args)

SpecAttrs == InitAttrs /\ [][NextAttrs]_vars

(***************************************************************************)
(* Properties                                                              *)
(***************************************************************************)
FatalEntries == {"Fatal", "Fatalln", "Fatalf"}

PanicEntries == {"PanicLog", "Panic", "Panicln", "Panicf"}

\* the entry points that return to their caller
PlainEntries == Entries \ (FatalEntries \cup PanicEntries)

\* the call of goroutine p is over: it returned, or reached os.Exit, or
\* raised a panic
Ended(p) == pc[p] \in {"returned", "exit", "panic"}

\* the floor the call of goroutine p is held against: the one its floor
\* check read, or the one in force when it never got that far
FloorFor(p) == IF cur[p].gate # "none" THEN cur[p].floor ELSE level.val

\* C1: a call of Trace, Debug, Info, Warn, Error, Print, Println or Printf
\* whose severity is below the floor its check read is dropped: the call
\* makes no Write and returns; a call that made a Write was at or above the
\* floor it read.
C1_BelowFloorWritesNothing ==
    \A p \in Procs :
        cur[p].op = "log" /\ cur[p].entry \in PlainEntries =>
            /\ (cur[p].gate # "none" /\ cur[p].lvl < cur[p].floor) =>
                   /\ cur[p].gate = "drop"
                   /\ cur[p].nw = 0
                   /\ cur[p].wrote = NoWrite
                   /\ pc[p] = "returned"
            /\ cur[p].nw > 0 =>
                   cur[p].gate = "pass" /\ cur[p].lvl >= cur[p].floor

\* a Printf call dropped under the ERROR floor: it has returned and has
\* written nothing
C1_Witness ==
    \E p \in Procs :
        /\ pc[p] = "returned" /\ cur[p].op = "log"
        /\ cur[p].entry = "Printf"
        /\ cur[p].gate = "drop" /\ cur[p].nw = 0
        /\ cur[p].floor = LevelError /\ cur[p].lvl = LevelInfo

\* C2: every logging call whose severity is at or above the floor writes
\* exactly one line: once the call is over it has made exactly one Write,
\* and the bytes of that Write hold exactly one line terminator, the last
\* byte.
C2_OneLinePerCall ==
    \A p \in Procs :
        cur[p].op = "log" =>
            /\ (Ended(p) /\ cur[p].lvl >= FloorFor(p)) => cur[p].nw = 1
            /\ cur[p].wrote.src = "call" =>
                   /\ Count(cur[p].wrote.bytes, NL) = 1
                   /\ cur[p].wrote.bytes[Len(cur[p].wrote.bytes)] = NL

\* C3: the init body runs at most once, Init writes nothing to the sink,
\* and no goroutine finds the logger nil when it reads it after ensureInit.
C3_SingleInitBeforeUse ==
    /\ once.runs <= 1
    /\ \A p \in Procs :
           /\ cur[p].op = "Init" => cur[p].nw = 0 /\ cur[p].nr = 0
           /\ cur[p].panic # "runtime"

\* C4: a logging call that starts after SetLevel(l) has returned, with no
\* later SetLevel before its floor check, is checked against the level l
\* names.
C4_SetLevelTakesEffect ==
    \A p \in Procs :
        (/\ cur[p].op = "log" /\ cur[p].gate # "none"
         /\ cur[p].setHas /\ ~cur[p].setLater)
            => cur[p].floor = cur[p].setLvl

\* C5: a call of Fatal, Fatalln or Fatalf never returns; when it is over it
\* has made exactly one Write, of a FATAL line, and is at os.Exit; if it ends
\* the process, the process exits with status 1.
C5_FatalWritesThenExits ==
    \A p \in Procs :
        cur[p].entry \in FatalEntries =>
            /\ pc[p] # "returned"
            /\ Ended(p) =>
                   /\ pc[p] = "exit"
                   /\ cur[p].nw = 1
                   /\ cur[p].wrote.level = LevelFatal
                   /\ Contains(cur[p].wrote.bytes, <<"F","A","T","A","L">>)
            /\ (proc.state # "running" /\ proc.by = p) =>
                   proc.state = "exited" /\ proc.code = 1

\* C6: a logging call whose Write failed returns that failure to its caller
\* as an error value, after exactly one attempt.
C6_WriteFailureReachesCaller ==
    \A p \in Procs :
        cur[p].op = "log" =>
            /\ cur[p].nw <= 1
            /\ (/\ pc[p] = "returned" /\ cur[p].wrote.src = "call"
                /\ ~cur[p].wrote.ok) => cur[p].ret = "EIO"

\* C7: the value a setter set stays the configured one until another setter
\* call replaces it; the environment load does not overwrite it.
C7_SetterValueIsUsed ==
    \A f \in ConfigFields : pinned[f].has => config[f] = pinned[f].v

\* C8: the bound attributes of every handler are its parent's attributes at
\* the time it was derived followed by the attributes it was derived with.
C8_DerivedAttrsIndependent ==
    \A h \in 1..Len(handlers) : BoundAttrs(h) = handlers[h].want

\* C9: a panic-style call under a deferred Recover never ends the process,
\* and when the scope has returned, the call has written its PANIC line and
\* Recover has written one PANIC line with a stack= attribute for the value
\* the call raised.
C9_RecoverLogsAndResumes ==
    \A p \in Procs :
        (cur[p].entry \in PanicEntries /\ cur[p].scoped) =>
            /\ ~(proc.state = "crashed" /\ proc.by = p)
            /\ pc[p] = "returned" =>
                   /\ cur[p].nw = 1 /\ cur[p].nr = 1
                   /\ cur[p].panic = "none"
                   /\ cur[p].payload = cur[p].msg
                   /\ cur[p].wrote.src = "recover"
                   /\ cur[p].wrote.level = LevelPanic
                   /\ Contains(cur[p].wrote.bytes, <<"P","A","N","I","C">>)
                   /\ Contains(cur[p].wrote.bytes,
                               <<" ","s","t","a","c","k","=">>)

\* C10: a line rendered while colorsDisabled is set holds no escape
\* character, whatever the level and whatever colors are configured.
C10_DisabledMeansNoEscape ==
    \A p \in Procs :
        (cur[p].wrote.src # "none" /\ cur[p].wrote.nocolor) =>
            ~Contains(cur[p].wrote.bytes, <<ESC>>)

\* a line rendered with colors disabled while the color of its level and
\* the color of the call site are both set
C10_Witness ==
    \E p \in Procs :
        /\ cur[p].wrote.src # "none" /\ cur[p].wrote.nocolor
        /\ config.colorsDisabled
        /\ levelColorOf(config, cur[p].wrote.level) # <<>>
        /\ config.colorSource # <<>>

\* whether s ends with suffix
EndsWith(s, suffix) ==
    /\ Len(suffix) <= Len(s)
    /\ SubSeq(s, Len(s) - Len(suffix) + 1, Len(s)) = suffix

\* C11: the body of a line rendered through a handler is the message, the
\* per-call attributes as key=value tokens in the order supplied, then the
\* attributes the handler was bound with (its parent's, then its own) in
\* their bound order, every pair present.
C11_AttrsInOrder ==
    cur["g1"].op = "handler" =>
        EndsWith(cur["g1"].wrote.bytes,
                 <<" ">> \o cur["g1"].msg
                 \o formatAttrs(argsToAttrs(cur["g1"].args))
                 \o formatAttrs(handlers[cur["g1"].call].want)
                 \o <<NL>>)

\* the call-site string of the Write goroutine p made: file:line
CallSiteOf(p) ==
    IF cur[p].wrote.src = "recover" THEN formatLoc(RecoverSite)
    ELSE formatLoc(CallSite(p, cur[p].entry))

\* exactly width characters: those of loc, then spaces
ExactWidth(loc, width) ==
    [i \in 1..width |-> IF i <= Len(loc) THEN loc[i] ELSE " "]

\* C12: the configured width is always positive, and the call-site bracket
\* of every line written holds exactly that many characters: the first W
\* characters of file:line, padded with spaces when file:line is shorter.
C12_BracketIsExactlyWidth ==
    /\ config.sourceWidth > 0
    /\ \A p \in Procs :
           cur[p].wrote.src # "none" =>
               /\ cur[p].wrote.width > 0
               /\ Contains(cur[p].wrote.bytes,
                           <<"[">> \o ExactWidth(CallSiteOf(p),
                                                 cur[p].wrote.width)
                           \o <<"]">>)

\* the ANSI escape for a red foreground
RedEscape == <<ESC, "[", "3", "1", "m">>

\* C13: a color setter called with "red", "31", the escape sequence for
\* code 31 or its textual form with the placeholder sets the red foreground
\* escape; called with "", "none" or "off" in any letter case it sets the
\* empty code.
C13_ResolverForms ==
    (cur["g1"].op = "SetColor" /\ cur["g1"].entry \in ColorFields) =>
        /\ cur["g1"].msg \in RedForms => config[cur["g1"].entry] = RedEscape
        /\ cur["g1"].msg \in EmptyForms => config[cur["g1"].entry] = <<>>

\* a setter called with the textual placeholder form has set the red escape
C13_Witness ==
    /\ cur["g1"].op = "SetColor"
    /\ cur["g1"].msg = <<"\\","0","3","3","[","3","1","m">>
    /\ config[cur["g1"].entry] = RedEscape

\* C14: a color that neither the environment nor a setter has set is the
\* resolver's output for its documented default: TRACE white, DEBUG gray,
\* INFO none, WARN yellow, ERROR red, source green.
C14_DefaultsAsDocumented ==
    \A f \in ColorFields :
        (env[ColorEnvKey(f)] = <<>> /\ ~pinned[f].has) =>
            config[f] = parseColor(DocumentedDefault(f))

\* the floors parseLevel can name
Floors == {LevelTrace, LevelDebug, LevelInfo, LevelWarn, LevelError}

\* C15: whatever LOG_LEVEL holds and whatever strings SetLevel is called
\* with, the floor is one of TRACE, DEBUG, INFO, WARN, ERROR, and a FATAL- or
\* PANIC-level call that reaches the floor check passes it.
C15_FloorNeverAboveError ==
    /\ level.val \in Floors
    /\ \A p \in Procs :
           cur[p].gate # "none" =>
               /\ cur[p].floor \in Floors
               /\ cur[p].lvl >= LevelFatal => cur[p].gate = "pass"

\* a Fatal call has passed the floor check under the highest floor, ERROR
C15_Witness ==
    \E p \in Procs :
        /\ cur[p].entry \in FatalEntries
        /\ cur[p].gate = "pass"
        /\ cur[p].floor = LevelError

=============================================================================
